---- MODULE Spec2Model ----
(***************************************************************************)
(* Model of botorch/optim/fit.py: fit_torch (the torch optimizer loop),    *)
(* fit_scipy (the scipy.optimize.minimize driver) and                      *)
(* _scipy_objective_and_grad (the objective/gradient adapter).             *)
(*                                                                         *)
(* The model (mll), its forward/backward pass, the torch optimizer,        *)
(* scipy's minimize, the wall clock and the numpy converter are the        *)
(* collaborators of this file.  Each is modelled by the observable effect  *)
(* the code relies on; where it is free to choose (which points minimize   *)
(* evaluates, what the clock returns) the choice is nondeterministic.      *)
(***************************************************************************)
EXTENDS Integers, Sequences, FiniteSets, TLC

(***************************************************************************)
(* Bounds of the model.                                                    *)
(***************************************************************************)
\* largest maxiter tried; maxiter ranges over -1 .. MaxM
MaxM == 2
\* fit_torch's loop is cut after this many optimizer steps
MaxSteps == 3
\* most objective evaluations scipy's minimize makes in one run
MaxEvals == 2
\* most callback invocations scipy's minimize makes in one run
MaxCallbacks == 2
\* time.time() returns a value in 0 .. MaxTime
MaxTime == 1

(***************************************************************************)
(* The model's parameters: "a" holds two float32 elements, "b" one float64 *)
(* element.                                                                *)
(***************************************************************************)
ParamNames == {"a", "b"}

Numel == [n \in ParamNames |-> IF n = "a" THEN 2 ELSE 1]

Dtype == [n \in ParamNames |-> IF n = "a" THEN "float32" ELSE "float64"]

\* a float64 -> dtype cast: float32 keeps only the even values of the grid
Cast(dt, v) == IF dt = "float32" THEN v - (v % 2) ELSE v

Zeros(n) == [j \in 1..n |-> 0]

\* a parameter's .grad: None, or a tensor of the parameter's shape
NoGrad == [none |-> TRUE, val |-> <<>>]

SomeGrad(v) == [none |-> FALSE, val |-> v]

\* The two orders named_parameters() can enumerate the parameters in
Orders == {<<"a", "b">>, <<"b", "a">>}

\* flat vectors scipy's minimize may evaluate, report or return
Points == {<<1, 2, 3>>}

\* parameter values the model may hold when a fit is called
InitParams == {[n \in ParamNames |-> IF n = "a" THEN <<2, 0>> ELSE <<1>>]}

VARIABLES
    call,             \* the function called: "fit_torch" or "fit_scipy"
    pc,               \* position in the called function
    track,            \* argument track_iterations
    connected,        \* the parameters the loss depends on
    params,           \* mll's parameter values, by name
    grads,            \* mll's parameter .grad, by name
    now,              \* last value returned by time.time()
    t1,               \* local t1
    iterations,       \* local iterations
    ret,              \* what the call handed to its caller
    lastWritten,      \* parameter values after the last completed write
    \* fit_torch
    maxiter, policy, lr, i, converged, loss, loss_trajectory,
    param_trajectory, stepLog, trace,
    \* fit_scipy
    property_dict, x0, cb, xs, ts, res_x, k, nEvals, cbCalls, lastWrite,
    reevalWrites,
    \* _scipy_objective_and_grad
    apc, ax, aloss, agrad, fg, atrace

torchVars == <<maxiter, policy, lr, i, converged, loss, loss_trajectory,
               param_trajectory, stepLog, trace>>

scipyVars == <<property_dict, x0, cb, xs, ts, res_x, k, nEvals, cbCalls,
               lastWrite, reevalWrites>>

adapterVars == <<apc, ax, aloss, agrad, fg, atrace>>

vars == <<call, pc, track, connected, params, grads, now, t1, iterations,
          ret, lastWritten, torchVars, scipyVars, adapterVars>>

(***************************************************************************)
(* The collaborators.                                                      *)
(***************************************************************************)
RECURSIVE SumSeq(_)
SumSeq(s) == IF s = <<>> THEN 0 ELSE Head(s) + SumSeq(Tail(s))

RECURSIVE Concat(_)
Concat(ss) == IF ss = <<>> THEN <<>> ELSE Head(ss) \o Concat(Tail(ss))

Squares(v) == [j \in DOMAIN v |-> v[j] * v[j]]

\* -mll(output, train_targets, *train_inputs).sum(): the oracle's loss
LossOf(p, conn) ==
    SumSeq([j \in 1..2 |->
        LET n == IF j = 1 THEN "a" ELSE "b"
        IN  IF n \in conn THEN SumSeq(Squares(p[n])) ELSE 0])

\* d loss / d p[n], for a parameter the loss depends on
TrueGrad(p, n) == [j \in DOMAIN p[n] |-> 2 * p[n][j]]

AddVec(u, v) == [j \in DOMAIN u |-> u[j] + v[j]]

\* loss.backward(): accumulates into .grad of the connected parameters only
Backward(g, p, conn) ==
    [n \in ParamNames |->
        IF n \notin conn THEN g[n]
        ELSE IF g[n].none THEN SomeGrad(TrueGrad(p, n))
        ELSE SomeGrad(AddVec(g[n].val, TrueGrad(p, n)))]

\* zero_grad(): zeroes every .grad that exists, leaves None as None
ZeroGrad(g) ==
    [n \in ParamNames |->
        IF g[n].none THEN NoGrad ELSE SomeGrad(Zeros(Numel[n]))]

Cleared(g) == \A n \in ParamNames : g[n].none \/ g[n].val = Zeros(Numel[n])

\* time.time(): the wall clock; a value below the last one read is the
\* system clock having been set back between the two reads
ClockValues == 0..MaxTime

(***************************************************************************)
(* The numpy converter (botorch.optim.numpy_converter).                    *)
(***************************************************************************)
RECURSIVE Offset(_, _)
Offset(pd, idx) ==
    IF idx = 1 THEN 0 ELSE Offset(pd, idx - 1) + Numel[pd[idx - 1]]

IndexOf(pd, n) == CHOOSE idx \in DOMAIN pd : pd[idx] = n

Slice(x, off, len) == [j \in 1..len |-> x[off + j]]

\* module_to_array: the parameters flattened in property_dict order, as float64
ModuleToArray(p, pd) == Concat([idx \in DOMAIN pd |-> p[pd[idx]]])

\* set_params_with_array: each slice cast to the parameter's dtype and
\* written in place
SetParamsWithArray(x, pd) ==
    [n \in ParamNames |->
        LET s == Slice(x, Offset(pd, IndexOf(pd, n)), Numel[n])
        IN  [j \in 1..Numel[n] |-> Cast(Dtype[n], s[j])]]

(***************************************************************************)
(* Values handed between the functions.                                    *)
(***************************************************************************)
OptimizationIteration(itr, fun, time) ==
    [itr |-> itr, fun |-> fun, time |-> time]

\* Optional[List[OptimizationIteration]]
NoList == [none |-> TRUE, list |-> <<>>]

SomeList(l) == [none |-> FALSE, list |-> l]

Running == [status |-> "running", mll |-> FALSE, iters |-> NoList]

Returned(l) == [status |-> "returned", mll |-> TRUE, iters |-> l]

Raised == [status |-> "raised", mll |-> FALSE, iters |-> NoList]

Policies == {"AtMax", "ExactMax", "Early"}

\* .grad of the parameters when a fit is called: None on a fresh model,
\* values left by an earlier backward pass otherwise
StaleGrads == {"None", "ones"}

GradsOf(st) ==
    [n \in ParamNames |->
        IF st = "None" THEN NoGrad
        ELSE SomeGrad([j \in 1..Numel[n] |-> 1])]

inputs == <<call, track, connected>>

Init ==
    /\ call \in {"fit_torch", "fit_scipy"}
    /\ pc = "start"
    /\ track \in BOOLEAN
    /\ connected \in SUBSET ParamNames
    /\ params \in InitParams
    /\ grads \in {GradsOf(st) : st \in StaleGrads}
    /\ now = 0
    /\ t1 = 0
    /\ iterations = <<>>
    /\ ret = Running
    /\ lastWritten = params
    /\ maxiter \in (IF call = "fit_torch" THEN (-1)..MaxM ELSE {0})
    /\ policy \in (IF call = "fit_torch" THEN Policies ELSE {"unused"})
    /\ lr \in (IF call = "fit_torch" THEN {1, 2} ELSE {0})
    /\ i = 0
    /\ converged = FALSE
    /\ loss = 0
    /\ loss_trajectory = <<>>
    /\ param_trajectory = [n \in ParamNames |-> <<>>]
    /\ stepLog = <<>>
    /\ trace = <<>>
    /\ property_dict = <<>>
    /\ x0 = <<>>
    /\ cb = "None"
    /\ xs = <<>>
    /\ ts = <<>>
    /\ res_x = <<>>
    /\ k = 0
    /\ nEvals = 0
    /\ cbCalls = <<>>
    /\ lastWrite = [src |-> "none", x |-> <<>>]
    /\ reevalWrites = <<>>
    /\ apc = "idle"
    /\ ax = <<>>
    /\ aloss = 0
    /\ agrad = <<>>
    /\ fg = [loss |-> 0, grad |-> <<>>]
    /\ atrace = <<>>

(***************************************************************************)
(* An exception raised by a collaborator: neither function has a try, so   *)
(* it leaves the call at once and the caller gets no return value.         *)
(***************************************************************************)
Propagate_caught ==
    /\ pc' = "raised"
    /\ ret' = [status |-> "raised", mll |-> TRUE, iters |-> SomeList(iterations)]

Propagate ==
    /\ pc' = "raised"
    /\ ret' = Raised

(***************************************************************************)
(* _scipy_objective_and_grad(x, mll, property_dict, ...), one statement    *)
(* per action.  apc is the position in the running call, "idle" outside.   *)
(***************************************************************************)
InAdapter == call = "fit_scipy" /\ pc \in {"minimize", "reeval_wait"}

AdapterCall(x) ==
    /\ apc' = "decode"
    /\ ax' = x
    /\ atrace' = <<>>
    /\ UNCHANGED <<aloss, agrad, fg>>

\* mll = set_params_with_array(mll, x, property_dict)
A_Decode ==
    /\ InAdapter /\ apc = "decode"
    /\ params' = SetParamsWithArray(ax, property_dict)
    /\ lastWritten' = params'
    /\ lastWrite' = [src |-> IF pc = "minimize" THEN "eval" ELSE "reeval",
                     x |-> ax]
    /\ reevalWrites' = IF pc = "minimize" THEN reevalWrites
                       ELSE Append(reevalWrites, ax)
    /\ apc' = "zero1"
    /\ atrace' = Append(atrace, "decode")
    /\ UNCHANGED <<inputs, pc, grads, now, t1, iterations, ret, torchVars,
                   property_dict, x0, cb, xs, ts, res_x, k, nEvals, cbCalls,
                   ax, aloss, agrad, fg>>

A_Zero1_skipped ==
    /\ InAdapter /\ apc = "zero1"
    /\ apc' = "forward"
    /\ atrace' = Append(atrace, "zero_grad")
    /\ UNCHANGED <<inputs, pc, params, grads, now, t1, iterations, ret,
                   lastWritten, torchVars, scipyVars, ax, aloss, agrad, fg>>

\* mll.zero_grad()
A_Zero1 ==
    /\ InAdapter /\ apc = "zero1"
    /\ grads' = ZeroGrad(grads)
    /\ apc' = "forward"
    /\ atrace' = Append(atrace, "zero_grad")
    /\ UNCHANGED <<inputs, pc, params, now, t1, iterations, ret, lastWritten,
                   torchVars, scipyVars, ax, aloss, agrad, fg>>

\* output = mll.model(*train_inputs); loss = -mll(output, ...).sum()
A_Forward ==
    /\ InAdapter /\ apc = "forward"
    /\ aloss' = LossOf(params, connected)
    /\ apc' = "backward"
    /\ atrace' = Append(atrace, "forward")
    /\ UNCHANGED <<inputs, pc, params, grads, now, t1, iterations, ret,
                   lastWritten, torchVars, scipyVars, ax, agrad, fg>>

\* loss.backward()
A_Backward ==
    /\ InAdapter /\ apc = "backward"
    /\ grads' = Backward(grads, params, connected)
    /\ apc' = "collect"
    /\ atrace' = Append(atrace, "backward")
    /\ UNCHANGED <<inputs, pc, params, now, t1, iterations, ret, lastWritten,
                   torchVars, scipyVars, ax, aloss, agrad, fg>>

\* the forward or the backward pass raises
A_Raise ==
    /\ InAdapter /\ apc \in {"forward", "backward"}
    /\ Propagate
    /\ apc' = "failed"
    /\ UNCHANGED <<inputs, params, grads, now, t1, iterations, lastWritten,
                   torchVars, scipyVars, ax, aloss, agrad, fg, atrace>>

GradSlice_dropped(g, n) ==
    IF g[n].none THEN <<>> ELSE g[n].val

\* the body of the loop over property_dict: zeros for a .grad of None
GradSlice(g, n) ==
    IF g[n].none THEN Zeros(Numel[n]) ELSE g[n].val

\* np.concatenate(grad), grad built in property_dict order
CollectGrad(g, pd) == Concat([idx \in DOMAIN pd |-> GradSlice(g, pd[idx])])

A_Collect ==
    /\ InAdapter /\ apc = "collect"
    /\ agrad' = CollectGrad(grads, property_dict)
    /\ apc' = "zero2"
    /\ atrace' = Append(atrace, "collect")
    /\ UNCHANGED <<inputs, pc, params, grads, now, t1, iterations, ret,
                   lastWritten, torchVars, scipyVars, ax, aloss, fg>>

\* mll.zero_grad()
A_Zero2 ==
    /\ InAdapter /\ apc = "zero2"
    /\ grads' = ZeroGrad(grads)
    /\ apc' = "return"
    /\ atrace' = Append(atrace, "zero_grad")
    /\ UNCHANGED <<inputs, pc, params, now, t1, iterations, ret, lastWritten,
                   torchVars, scipyVars, ax, aloss, agrad, fg>>

\* return loss.item(), np.concatenate(grad)
A_Return ==
    /\ InAdapter /\ apc = "return"
    /\ fg' = [loss |-> aloss, grad |-> agrad]
    /\ apc' = "idle"
    /\ UNCHANGED <<inputs, pc, params, grads, now, t1, iterations, ret,
                   lastWritten, torchVars, scipyVars, ax, aloss, agrad,
                   atrace>>

(***************************************************************************)
(* fit_scipy.                                                              *)
(***************************************************************************)
\* x0, property_dict, bounds = module_to_array(module=mll, bounds=bounds)
\* x0 = x0.astype(np.float64)
S_Encode ==
    /\ call = "fit_scipy" /\ pc = "start"
    /\ \E pd \in Orders :
        /\ property_dict' = pd
        /\ x0' = ModuleToArray(params, pd)
    /\ pc' = "setup"
    /\ UNCHANGED <<inputs, params, grads, now, t1, iterations, ret,
                   lastWritten, torchVars, cb, xs, ts, res_x, k, nEvals,
                   cbCalls, lastWrite, reevalWrites, adapterVars>>

\* xs = []; ts = []; t1 = time.time();
\* cb = store_iteration if track_iterations else None
S_Setup ==
    /\ call = "fit_scipy" /\ pc = "setup"
    /\ xs' = <<>>
    /\ ts' = <<>>
    /\ \E t \in ClockValues : now' = t /\ t1' = t
    /\ cb' = IF track THEN "store_iteration" ELSE "None"
    /\ pc' = "minimize"
    /\ UNCHANGED <<inputs, params, grads, iterations, ret, lastWritten,
                   torchVars, property_dict, x0, res_x, k, nEvals, cbCalls,
                   lastWrite, reevalWrites, adapterVars>>

\* the vectors minimize works with
Candidates == Points \cup {x0}

\* def store_iteration(xk): xs.append(xk.copy()); ts.append(time.time() - t1)
StoreIteration(xk, t) ==
    /\ xs' = Append(xs, xk)
    /\ ts' = Append(ts, t - t1)

\* minimize evaluates fun (the adapter): first at x0, then at vectors of its
\* choice
M_Eval ==
    /\ call = "fit_scipy" /\ pc = "minimize" /\ apc = "idle"
    /\ nEvals < MaxEvals
    /\ \E x \in (IF nEvals = 0 THEN {x0} ELSE Candidates) : AdapterCall(x)
    /\ nEvals' = nEvals + 1
    /\ UNCHANGED <<inputs, pc, params, grads, now, t1, iterations, ret,
                   lastWritten, torchVars, property_dict, x0, cb, xs, ts,
                   res_x, k, cbCalls, lastWrite, reevalWrites>>

\* minimize invokes the callback it was given, if any, on its current iterate
M_Callback ==
    /\ call = "fit_scipy" /\ pc = "minimize" /\ apc = "idle"
    /\ nEvals >= 1
    /\ cb = "store_iteration"
    /\ Len(cbCalls) < MaxCallbacks
    /\ \E x \in Candidates, t \in ClockValues :
        /\ now' = t
        /\ StoreIteration(x, t)
        /\ cbCalls' = Append(cbCalls, [x |-> x, at |-> t])
    /\ UNCHANGED <<inputs, pc, params, grads, t1, iterations, ret,
                   lastWritten, torchVars, property_dict, x0, cb, res_x, k,
                   nEvals, lastWrite, reevalWrites, adapterVars>>

\* minimize returns res, res.x a vector of its choice
M_Return ==
    /\ call = "fit_scipy" /\ pc = "minimize" /\ apc = "idle"
    /\ nEvals >= 1
    /\ \E x \in Candidates : res_x' = x
    /\ pc' = "post"
    /\ UNCHANGED <<inputs, params, grads, now, t1, iterations, ret,
                   lastWritten, torchVars, property_dict, x0, cb, xs, ts, k,
                   nEvals, cbCalls, lastWrite, reevalWrites, adapterVars>>

\* minimize itself raises
M_Raise ==
    /\ call = "fit_scipy" /\ pc = "minimize" /\ apc = "idle"
    /\ Propagate
    /\ UNCHANGED <<inputs, params, grads, now, t1, iterations, lastWritten,
                   torchVars, scipyVars, adapterVars>>

\* iterations = []; if track_iterations:
S_Post ==
    /\ call = "fit_scipy" /\ pc = "post"
    /\ iterations' = <<>>
    /\ k' = 0
    /\ pc' = IF track THEN "reeval" ELSE "set_optimum"
    /\ UNCHANGED <<inputs, params, grads, now, t1, ret, lastWritten,
                   torchVars, property_dict, x0, cb, xs, ts, res_x, nEvals,
                   cbCalls, lastWrite, reevalWrites, adapterVars>>

S_ReevalCall_last ==
    /\ call = "fit_scipy" /\ pc = "reeval"
    /\ k < Len(xs)
    /\ AdapterCall(xs[Len(xs)])
    /\ pc' = "reeval_wait"
    /\ UNCHANGED <<inputs, params, grads, now, t1, iterations, ret,
                   lastWritten, torchVars, scipyVars>>

\* for i, xk in enumerate(xs): obj, _ = _scipy_objective_and_grad(xk, ...)
S_ReevalCall ==
    /\ call = "fit_scipy" /\ pc = "reeval"
    /\ k < Len(xs)
    /\ AdapterCall(xs[k + 1])
    /\ pc' = "reeval_wait"
    /\ UNCHANGED <<inputs, params, grads, now, t1, iterations, ret,
                   lastWritten, torchVars, scipyVars>>

\* iterations.append(OptimizationIteration(i, obj, ts[i]))
S_ReevalRecord ==
    /\ call = "fit_scipy" /\ pc = "reeval_wait" /\ apc = "idle"
    /\ iterations' =
         Append(iterations, OptimizationIteration(k, fg.loss, ts[k + 1]))
    /\ k' = k + 1
    /\ pc' = "reeval"
    /\ UNCHANGED <<inputs, params, grads, now, t1, ret, lastWritten,
                   torchVars, property_dict, x0, cb, xs, ts, res_x, nEvals,
                   cbCalls, lastWrite, reevalWrites, adapterVars>>

\* the loop over xs is exhausted
S_ReevalExit ==
    /\ call = "fit_scipy" /\ pc = "reeval"
    /\ k >= Len(xs)
    /\ pc' = "set_optimum"
    /\ UNCHANGED <<inputs, params, grads, now, t1, iterations, ret,
                   lastWritten, torchVars, scipyVars, adapterVars>>

S_SetOptimum_skipped ==
    /\ call = "fit_scipy" /\ pc = "set_optimum"
    /\ ret' = Returned(SomeList(iterations))
    /\ pc' = "done"
    /\ UNCHANGED <<inputs, params, grads, now, t1, iterations, lastWritten,
                   torchVars, scipyVars, adapterVars>>

\* mll = set_params_with_array(mll, res.x, property_dict)
\* return mll, iterations
S_SetOptimum ==
    /\ call = "fit_scipy" /\ pc = "set_optimum"
    /\ params' = SetParamsWithArray(res_x, property_dict)
    /\ lastWritten' = params'
    /\ lastWrite' = [src |-> "final", x |-> res_x]
    /\ ret' = Returned(SomeList(iterations))
    /\ pc' = "done"
    /\ UNCHANGED <<inputs, grads, now, t1, iterations, torchVars,
                   property_dict, x0, cb, xs, ts, res_x, k, nEvals, cbCalls,
                   reevalWrites, adapterVars>>

NextScipy ==
    \/ S_Encode \/ S_Setup
    \/ M_Eval \/ M_Callback \/ M_Return \/ M_Raise
    \/ A_Decode \/ A_Zero1 \/ A_Forward \/ A_Backward \/ A_Raise
    \/ A_Collect \/ A_Zero2 \/ A_Return
    \/ S_Post \/ S_ReevalCall \/ S_ReevalRecord \/ S_ReevalExit
    \/ S_SetOptimum

(***************************************************************************)
(* fit_torch.                                                              *)
(***************************************************************************)
Sign(v) == IF v > 0 THEN 1 ELSE IF v < 0 THEN -1 ELSE 0

\* optimizer.step(): a parameter with a .grad moves against it by lr,
\* a parameter whose .grad is None is left alone
StepParams(p, g, rate) ==
    [n \in ParamNames |->
        IF g[n].none THEN p[n]
        ELSE [j \in DOMAIN p[n] |-> p[n][j] - rate * Sign(g[n].val[j])]]

\* botorch.utils.check_convergence(loss_trajectory, param_trajectory,
\* options, max_iter): true once the trajectory has max_iter entries
\* ("AtMax"), true at exactly max_iter entries ("ExactMax"), or true at
\* max_iter entries and whenever its own heuristic says so ("Early")
CheckConvergence(lt, pt, max_iter, pol, heuristic) ==
    CASE pol = "AtMax" -> Len(lt) >= max_iter
      [] pol = "ExactMax" -> Len(lt) = max_iter
      [] OTHER -> Len(lt) >= max_iter \/ heuristic

\* optimizer = optimizer_cls(...); iterations = []; t1 = time.time();
\* param_trajectory = {name: []}; loss_trajectory = []; i = 0;
\* converged = False
T_Init ==
    /\ call = "fit_torch" /\ pc = "start"
    /\ iterations' = <<>>
    /\ \E t \in ClockValues : now' = t /\ t1' = t
    /\ param_trajectory' = [n \in ParamNames |-> <<>>]
    /\ loss_trajectory' = <<>>
    /\ i' = 0
    /\ converged' = FALSE
    /\ pc' = "while"
    /\ UNCHANGED <<inputs, params, grads, ret, lastWritten, maxiter, policy,
                   lr, loss, stepLog, trace, scipyVars, adapterVars>>

T_While_cutoff ==
    /\ call = "fit_torch" /\ pc = "while"
    /\ \/ /\ ~converged /\ i < maxiter
          /\ i < MaxSteps
          /\ pc' = "zero_grad"
       \/ /\ (converged \/ i >= maxiter)
          /\ pc' = "return"
    /\ trace' = <<>>
    /\ UNCHANGED <<inputs, params, grads, now, t1, iterations, ret,
                   lastWritten, maxiter, policy, lr, i, converged, loss,
                   loss_trajectory, param_trajectory, stepLog, scipyVars,
                   adapterVars>>

\* while not converged:
T_While ==
    /\ call = "fit_torch" /\ pc = "while"
    /\ \/ /\ ~converged
          /\ i < MaxSteps
          /\ pc' = "zero_grad"
       \/ /\ converged
          /\ pc' = "return"
    /\ trace' = <<>>
    /\ UNCHANGED <<inputs, params, grads, now, t1, iterations, ret,
                   lastWritten, maxiter, policy, lr, i, converged, loss,
                   loss_trajectory, param_trajectory, stepLog, scipyVars,
                   adapterVars>>

\* optimizer.zero_grad()
T_ZeroGrad ==
    /\ call = "fit_torch" /\ pc = "zero_grad"
    /\ grads' = ZeroGrad(grads)
    /\ pc' = "forward"
    /\ trace' = Append(trace, "zero_grad")
    /\ UNCHANGED <<inputs, params, now, t1, iterations, ret, lastWritten,
                   maxiter, policy, lr, i, converged, loss, loss_trajectory,
                   param_trajectory, stepLog, scipyVars, adapterVars>>

\* output = mll.model(*train_inputs); loss = -mll(output, ...).sum()
T_Forward ==
    /\ call = "fit_torch" /\ pc = "forward"
    /\ loss' = LossOf(params, connected)
    /\ pc' = "backward"
    /\ trace' = Append(trace, "forward")
    /\ UNCHANGED <<inputs, params, grads, now, t1, iterations, ret,
                   lastWritten, maxiter, policy, lr, i, converged,
                   loss_trajectory, param_trajectory, stepLog, scipyVars,
                   adapterVars>>

\* loss.backward()
T_Backward ==
    /\ call = "fit_torch" /\ pc = "backward"
    /\ grads' = Backward(grads, params, connected)
    /\ pc' = "trajectory"
    /\ trace' = Append(trace, "backward")
    /\ UNCHANGED <<inputs, params, now, t1, iterations, ret, lastWritten,
                   maxiter, policy, lr, i, converged, loss, loss_trajectory,
                   param_trajectory, stepLog, scipyVars, adapterVars>>

T_Trajectory_poststep ==
    /\ call = "fit_torch" /\ pc = "trajectory"
    /\ loss_trajectory' =
         Append(loss_trajectory,
                LossOf(StepParams(params, grads, lr), connected))
    /\ param_trajectory' =
         [n \in ParamNames |->
            Append(param_trajectory[n], StepParams(params, grads, lr)[n])]
    /\ pc' = "record"
    /\ trace' = Append(trace, "trajectory")
    /\ UNCHANGED <<inputs, params, grads, now, t1, iterations, ret,
                   lastWritten, maxiter, policy, lr, i, converged, loss,
                   stepLog, scipyVars, adapterVars>>

\* loss_trajectory.append(loss.item())
\* for name, param in mll.named_parameters():
\*     param_trajectory[name].append(param.detach().clone())
T_Trajectory ==
    /\ call = "fit_torch" /\ pc = "trajectory"
    /\ loss_trajectory' = Append(loss_trajectory, loss)
    /\ param_trajectory' =
         [n \in ParamNames |-> Append(param_trajectory[n], params[n])]
    /\ pc' = "record"
    /\ trace' = Append(trace, "trajectory")
    /\ UNCHANGED <<inputs, params, grads, now, t1, iterations, ret,
                   lastWritten, maxiter, policy, lr, i, converged, loss,
                   stepLog, scipyVars, adapterVars>>

\* if track_iterations:
\*     iterations.append(OptimizationIteration(i, loss.item(),
\*                                             time.time() - t1))
T_Record ==
    /\ call = "fit_torch" /\ pc = "record"
    /\ \/ /\ track
          /\ \E t \in ClockValues :
                /\ now' = t
                /\ iterations' =
                     Append(iterations,
                            OptimizationIteration(i, loss, t - t1))
       \/ /\ ~track
          /\ UNCHANGED <<now, iterations>>
    /\ pc' = "step"
    /\ trace' = Append(trace, "record")
    /\ UNCHANGED <<inputs, params, grads, t1, ret, lastWritten, maxiter,
                   policy, lr, i, converged, loss, loss_trajectory,
                   param_trajectory, stepLog, scipyVars, adapterVars>>

\* optimizer.step()
T_Step ==
    /\ call = "fit_torch" /\ pc = "step"
    /\ params' = StepParams(params, grads, lr)
    /\ lastWritten' = params'
    /\ stepLog' = Append(stepLog, params)
    /\ pc' = "incr"
    /\ trace' = Append(trace, "step")
    /\ UNCHANGED <<inputs, grads, now, t1, iterations, ret, maxiter, policy,
                   lr, i, converged, loss, loss_trajectory, param_trajectory,
                   scipyVars, adapterVars>>

\* i += 1
T_Incr ==
    /\ call = "fit_torch" /\ pc = "incr"
    /\ i' = i + 1
    /\ pc' = "check"
    /\ trace' = Append(trace, "incr")
    /\ UNCHANGED <<inputs, params, grads, now, t1, iterations, ret,
                   lastWritten, maxiter, policy, lr, converged, loss,
                   loss_trajectory, param_trajectory, stepLog, scipyVars,
                   adapterVars>>

\* converged = check_convergence(loss_trajectory=loss_trajectory,
\*     param_trajectory=param_trajectory, options={}, max_iter=maxiter)
T_Check ==
    /\ call = "fit_torch" /\ pc = "check"
    /\ \E heuristic \in BOOLEAN :
        converged' = CheckConvergence(loss_trajectory, param_trajectory,
                                      maxiter, policy, heuristic)
    /\ pc' = "while"
    /\ UNCHANGED <<inputs, params, grads, now, t1, iterations, ret,
                   lastWritten, maxiter, policy, lr, i, loss, loss_trajectory,
                   param_trajectory, stepLog, trace, scipyVars, adapterVars>>

\* the forward pass, the backward pass or optimizer.step() raises
T_Raise ==
    /\ call = "fit_torch" /\ pc \in {"forward", "backward", "step"}
    /\ Propagate
    /\ UNCHANGED <<inputs, params, grads, now, t1, iterations, lastWritten,
                   torchVars, scipyVars, adapterVars>>

T_Return_list ==
    /\ call = "fit_torch" /\ pc = "return"
    /\ ret' = Returned(SomeList(iterations))
    /\ pc' = "done"
    /\ UNCHANGED <<inputs, params, grads, now, t1, iterations, lastWritten,
                   torchVars, scipyVars, adapterVars>>

\* return mll, iterations if track_iterations else None
T_Return ==
    /\ call = "fit_torch" /\ pc = "return"
    /\ ret' = Returned(IF track THEN SomeList(iterations) ELSE NoList)
    /\ pc' = "done"
    /\ UNCHANGED <<inputs, params, grads, now, t1, iterations, lastWritten,
                   torchVars, scipyVars, adapterVars>>

NextTorch ==
    \/ T_Init \/ T_While \/ T_ZeroGrad \/ T_Forward \/ T_Backward
    \/ T_Trajectory \/ T_Record \/ T_Step \/ T_Incr \/ T_Check
    \/ T_Raise \/ T_Return

Next == NextTorch \/ NextScipy

Spec == Init /\ [][Next]_vars

(***************************************************************************)
(* Shorthands used by the properties.                                      *)
(***************************************************************************)
TorchDone == call = "fit_torch" /\ pc = "done"

ScipyDone == call = "fit_scipy" /\ pc = "done"

\* the last call of the adapter has returned normally
AdapterReturned == call = "fit_scipy" /\ apc = "idle" /\ atrace # <<>>

IndicesInOrder(l) == \A j \in DOMAIN l : l[j].itr = j - 1

(***************************************************************************)
(* C1.  fit_torch with a policy that answers true exactly when the loss    *)
(* trajectory has maxiter entries: the loop body runs exactly maxiter      *)
(* times, and with track_iterations the returned list holds exactly        *)
(* maxiter records whose itr are 0 .. maxiter-1 in order.  Stated for a     *)
(* maximum that is a count, maxiter >= 0.                                  *)
(***************************************************************************)
C1_ExactlyMaxiter ==
    (TorchDone /\ policy \in {"AtMax", "ExactMax"} /\ maxiter >= 0) =>
        /\ Len(stepLog) = maxiter
        /\ track =>
            /\ ~ret.iters.none
            /\ Len(ret.iters.list) = maxiter
            /\ IndicesInOrder(ret.iters.list)

\* what holds of the code: the same for maxiter >= 1; for maxiter <= 0 the
\* body still runs once ("AtMax") or the loop never leaves ("ExactMax")
C1_ForPositiveMaxiter ==
    /\ (TorchDone /\ policy \in {"AtMax", "ExactMax"}) =>
        /\ Len(stepLog) = (IF maxiter >= 1 THEN maxiter ELSE 1)
        /\ track =>
            /\ ~ret.iters.none
            /\ Len(ret.iters.list) = Len(stepLog)
            /\ IndicesInOrder(ret.iters.list)
    /\ (TorchDone /\ policy = "ExactMax") => maxiter >= 1

(***************************************************************************)
(* C2.  fit_scipy with track_iterations: the returned list has one record  *)
(* per callback invocation, record j has itr = j and holds the objective   *)
(* at the j-th invocation's vector and that invocation's elapsed time, and *)
(* the time fields are non-decreasing in j.                                *)
(***************************************************************************)
C2_RecordsMatchCallbacks ==
    (ScipyDone /\ track) =>
        /\ ~ret.iters.none
        /\ Len(ret.iters.list) = Len(cbCalls)
        /\ IndicesInOrder(ret.iters.list)
        /\ \A j \in DOMAIN ret.iters.list :
            /\ ret.iters.list[j].fun =
                 LossOf(SetParamsWithArray(cbCalls[j].x, property_dict),
                        connected)
            /\ ret.iters.list[j].time = cbCalls[j].at - t1
        /\ \A j, l \in DOMAIN ret.iters.list :
            j <= l => ret.iters.list[j].time <= ret.iters.list[l].time

\* what holds of the code: everything but the order of the time fields,
\* which are differences of wall-clock readings
C2_ExceptTimeOrder ==
    (ScipyDone /\ track) =>
        /\ ~ret.iters.none
        /\ Len(ret.iters.list) = Len(cbCalls)
        /\ IndicesInOrder(ret.iters.list)
        /\ \A j \in DOMAIN ret.iters.list :
            /\ ret.iters.list[j].fun =
                 LossOf(SetParamsWithArray(cbCalls[j].x, property_dict),
                        connected)
            /\ ret.iters.list[j].time = cbCalls[j].at - t1

(***************************************************************************)
(* C3.  Whenever fit_scipy returns normally the model's parameters are the *)
(* decode of res.x.                                                        *)
(***************************************************************************)
C3_FinalIsDecodeOfResX ==
    ScipyDone => params = SetParamsWithArray(res_x, property_dict)

C3_Witness ==
    /\ ScipyDone
    /\ reevalWrites # <<>>
    /\ reevalWrites[Len(reevalWrites)] # res_x
    /\ SetParamsWithArray(reevalWrites[Len(reevalWrites)], property_dict)
         # params

(***************************************************************************)
(* C4.  As claimed: no vector recorded by the callback is ever written     *)
(* into the model; every write is of a point minimize evaluated or of      *)
(* res.x.                                                                  *)
(***************************************************************************)
C4_RecordedNeverWritten ==
    call = "fit_scipy" => lastWrite.src \in {"none", "eval", "final"}

(***************************************************************************)
(* C4, amended.  Before the post-run loop no recorded vector is written;   *)
(* the post-run loop writes the recorded vectors into the model, one write *)
(* per vector in recording order; a normal return comes only after every   *)
(* recorded vector was written and the write of res.x followed them.       *)
(***************************************************************************)
C4_RecordedWrittenOnlyTransiently ==
    call = "fit_scipy" =>
        /\ Len(reevalWrites) <= Len(xs)
        /\ reevalWrites = SubSeq(xs, 1, Len(reevalWrites))
        /\ pc \in {"start", "setup", "minimize", "post"} =>
              /\ reevalWrites = <<>>
              /\ lastWrite.src \in {"none", "eval"}
        /\ lastWrite.src = "reeval" =>
              pc \in {"reeval", "reeval_wait", "set_optimum", "raised"}
        /\ pc = "done" =>
              /\ lastWrite.src = "final"
              /\ track => reevalWrites = xs

C4_Witness ==
    /\ ScipyDone
    /\ Len(reevalWrites) = 2
    /\ reevalWrites[1] # reevalWrites[2]

C6_GradientLayout ==
    AdapterReturned =>
        /\ Len(fg.grad) = Len(ax)
        /\ \A idx \in DOMAIN property_dict :
            LET n == property_dict[idx]
                off == Offset(property_dict, idx)
            IN  \A j \in 1..Numel[n] :
                    fg.grad[off + j] =
                        IF n \in connected
                        THEN 2 * Cast(Dtype[n], ax[off + j])
                        ELSE 0

C6_Witness ==
    /\ AdapterReturned
    /\ pc = "minimize"
    /\ property_dict = <<"b", "a">>
    /\ connected = {"a"}
    /\ grads["b"].none
    /\ fg.grad = <<0, 4, 4>>

(***************************************************************************)
(* C7.  A failure of minimize, of the optimizer or of the forward/backward *)
(* pass leaves the call at once: the caller gets neither the model nor a   *)
(* list, and the parameters are those of the last completed write.         *)
(***************************************************************************)
C7_FailurePropagates ==
    /\ ret.status = "raised" <=> pc = "raised"
    /\ pc = "raised" =>
        /\ ~ret.mll
        /\ ret.iters = NoList
        /\ params = lastWritten
        /\ (call = "fit_scipy" /\ lastWrite.src # "none") =>
              params = SetParamsWithArray(lastWrite.x, property_dict)

C7_Witness ==
    /\ call = "fit_scipy"
    /\ pc = "raised"
    /\ apc = "failed"
    /\ lastWrite.src = "reeval"
    /\ iterations # <<>>

(***************************************************************************)
(* C8.  Every normal return of the adapter comes after decode, clear,      *)
(* forward, backward, collect, clear, in that order; all gradients are     *)
(* then cleared and the returned loss and gradient are those of the input  *)
(* vector alone.  fit_scipy returns with all gradients cleared.            *)
(***************************************************************************)
ExpectedGrad(x) ==
    Concat([idx \in DOMAIN property_dict |->
        LET n == property_dict[idx]
        IN  IF n \in connected
            THEN TrueGrad(SetParamsWithArray(x, property_dict), n)
            ELSE Zeros(Numel[n])])

C8_AdapterLeavesNoGradient ==
    /\ AdapterReturned =>
        /\ atrace = <<"decode", "zero_grad", "forward", "backward",
                      "collect", "zero_grad">>
        /\ Cleared(grads)
        /\ fg.loss = LossOf(SetParamsWithArray(ax, property_dict), connected)
        /\ fg.grad = ExpectedGrad(ax)
    /\ ScipyDone => Cleared(grads)

C8_Witness ==
    /\ AdapterReturned
    /\ pc = "minimize"
    /\ nEvals = 2
    /\ connected = ParamNames
    /\ ~grads["a"].none
    /\ fg.grad # Zeros(3)

(***************************************************************************)
(* C9.  In fit_torch the loss and the snapshot at trajectory index j are   *)
(* those of the parameters before the j-th step; the policy is consulted   *)
(* after clear, forward, backward, append, record, step, increment, with   *)
(* every trajectory as long as the number of steps taken; the parameters   *)
(* produced by the last step are not recorded.                             *)
(***************************************************************************)
C9_TrajectoryBeforeStep ==
    call = "fit_torch" =>
        /\ \A j \in DOMAIN stepLog :
            /\ loss_trajectory[j] = LossOf(stepLog[j], connected)
            /\ \A n \in ParamNames : param_trajectory[n][j] = stepLog[j][n]
        /\ pc \in {"check", "while", "return", "done"} =>
            /\ Len(loss_trajectory) = Len(stepLog)
            /\ Len(stepLog) = i
            /\ \A n \in ParamNames : Len(param_trajectory[n]) = i
            /\ track => Len(iterations) = i
        /\ pc = "check" =>
            /\ trace = <<"zero_grad", "forward", "backward", "trajectory",
                         "record", "step", "incr">>
            /\ track => iterations[i] =
                 OptimizationIteration(i - 1, loss_trajectory[i],
                                       iterations[i].time)

C9_Witness ==
    /\ TorchDone
    /\ Len(stepLog) = 2
    /\ params # stepLog[2]
    /\ LossOf(params, connected) # loss_trajectory[2]
    /\ \A n \in ParamNames : Len(param_trajectory[n]) = 2

C10_NoCutoff ==
    /\ call = "fit_torch"
    /\ policy = "ExactMax"
    /\ pc = "zero_grad"
    /\ i > maxiter
    /\ i >= 2

====
